---- MODULE Spec2Model ----
(***************************************************************************)
(* Model of the data-cleaning core of src/app/page.tsx (cleanData) and of  *)
(* the table shapes parseFile hands to it (specification Spec), and of the *)
(* three-step wizard around it: uploads, detection of the data and         *)
(* template files, step changes, the cleaning run (specification           *)
(* WizardSpec, and UploadSpec where uploads overlap).  OptionSpec,         *)
(* CellSpec and RowSpec are Spec on narrower families of inputs.           *)
(*                                                                         *)
(* JavaScript values are tagged records [t, s, n, b]: t is the type, and   *)
(* the value is in s (a string, as a sequence of one-character strings),   *)
(* in n (a number) or in b (a boolean), the other fields being fixed.      *)
(* An optional field (data?, headers?) is a sequence of length 0 (absent)  *)
(* or 1 (present).  Array positions are 1-based here, 0-based in the code. *)
(***************************************************************************)
EXTENDS Integers, Sequences, FiniteSets, TLC

VARIABLES dataFile, templateFile, options, pc, result, error

\* The state of the page component (useState), and the asynchronous calls
\* in flight: parsing holds the processFiles calls waiting for parseFile,
\* cleaning the handleCleanData call waiting for its timer, each with the
\* state of the render that created it.
VARIABLES currentStep, uploadedFiles, cleaningResult, isProcessing, errorText,
          autoAdvanceCountdown, cleaningOptions, parsing, cleaning

callVars == <<dataFile, templateFile, options, pc, result, error>>

pageVars == <<currentStep, uploadedFiles, cleaningResult, isProcessing,
              errorText, autoAdvanceCountdown, cleaningOptions, parsing,
              cleaning>>

vars == <<dataFile, templateFile, options, pc, result, error,
          currentStep, uploadedFiles, cleaningResult, isProcessing, errorText,
          autoAdvanceCountdown, cleaningOptions, parsing, cleaning>>

(***************************************************************************)
(* Bounds of the model.                                                    *)
(***************************************************************************)
MaxCols == 2
MaxRows == 3
MaxLen == 3
MaxFiles == 2
MaxParsing == 2

(***************************************************************************)
(* JavaScript values.                                                      *)
(***************************************************************************)
Str(s) == [t |-> "string", s |-> s, n |-> 0, b |-> FALSE]
Num(n) == [t |-> "number", s |-> <<>>, n |-> n, b |-> FALSE]
Bool(b) == [t |-> "boolean", s |-> <<>>, n |-> 0, b |-> b]

EmptyString == Str(<<>>)

Absent == <<>>
Present(x) == <<x>>
IsPresent(o) == Len(o) = 1
Get(o) == o[1]

\* Truthiness of a cell value, as used by `x || ''` and `cell && ...`.
IsTruthy(c) ==
  CASE c.t = "string" -> c.s # <<>>
    [] c.t = "number" -> c.n # 0
    [] c.t = "boolean" -> c.b

Digits == <<"0", "1", "2", "3", "4", "5", "6", "7", "8", "9">>
LowerLetters == <<"a", "b", "c", "d", "e", "f", "g", "h", "i", "j", "k", "l", "m",
                  "n", "o", "p", "q", "r", "s", "t", "u", "v", "w", "x", "y", "z">>
UpperLetters == <<"A", "B", "C", "D", "E", "F", "G", "H", "I", "J", "K", "L", "M",
                  "N", "O", "P", "Q", "R", "S", "T", "U", "V", "W", "X", "Y", "Z">>
WhitespaceChars == {" ", "\t", "\n", "\r"}

Range(s) == {s[i] : i \in DOMAIN s}
IsDigit(c) == c \in Range(Digits)
IsLetter(c) == c \in Range(LowerLetters) \cup Range(UpperLetters)
IsWhitespace(c) == c \in WhitespaceChars

IndexIn(s, c) == CHOOSE i \in DOMAIN s : s[i] = c

RECURSIVE NatToString(_)
NatToString(n) ==
  IF n < 10 THEN <<Digits[n + 1]>>
  ELSE NatToString(n \div 10) \o <<Digits[(n % 10) + 1]>>

\* value.toString()
toString(c) ==
  CASE c.t = "string" -> c.s
    [] c.t = "number" -> IF c.n < 0 THEN <<"-">> \o NatToString(-c.n)
                         ELSE NatToString(c.n)
    [] c.t = "boolean" -> IF c.b THEN <<"t", "r", "u", "e">>
                          ELSE <<"f", "a", "l", "s", "e">>

\* String.prototype.trim
RECURSIVE trimStart(_)
trimStart(s) ==
  IF s # <<>> /\ IsWhitespace(Head(s)) THEN trimStart(Tail(s)) ELSE s

RECURSIVE trimEnd(_)
trimEnd(s) ==
  IF s # <<>> /\ IsWhitespace(s[Len(s)]) THEN trimEnd(SubSeq(s, 1, Len(s) - 1))
  ELSE s

trim(s) == trimEnd(trimStart(s))

toUpperCase(s) ==
  [i \in DOMAIN s |->
     IF s[i] \in Range(LowerLetters) THEN UpperLetters[IndexIn(LowerLetters, s[i])]
     ELSE s[i]]

toLowerCase(s) ==
  [i \in DOMAIN s |->
     IF s[i] \in Range(UpperLetters) THEN LowerLetters[IndexIn(UpperLetters, s[i])]
     ELSE s[i]]

\* cellValue.replace(/[^a-zA-Z0-9\s]/g, '')
IsSpecialChar(c) == ~(IsLetter(c) \/ IsDigit(c) \/ IsWhitespace(c))
KeepsChar(c) == ~IsSpecialChar(c)
removeSpecial(s) == SelectSeq(s, KeepsChar)

\* Length of the run of "0" characters at the start of s.
RECURSIVE ZeroRun(_)
ZeroRun(s) == IF s # <<>> /\ Head(s) = "0" THEN 1 + ZeroRun(Tail(s)) ELSE 0

\* /^0+\d/.test(s): some non-empty prefix of the zero run is followed by a
\* digit (the regex backtracks, and "0" is itself a digit).
leadingZerosTest(s) ==
  \E k \in 1..ZeroRun(s) : k < Len(s) /\ IsDigit(s[k + 1])

\* Faulty variant of stripLeadingZeros: replace(/^0/, '') drops one zero only.
stripOneLeadingZero(s) == Tail(s)

\* s.replace(/^0+/, ''): the whole zero run goes.
stripLeadingZeros(s) == SubSeq(s, ZeroRun(s) + 1, Len(s))

\* JSON.stringify of one array element.
JSONEscapeChar(c) ==
  CASE c = "\"" -> <<"\\", "\"">>
    [] c = "\\" -> <<"\\", "\\">>
    [] c = "\t" -> <<"\\", "t">>
    [] c = "\n" -> <<"\\", "n">>
    [] c = "\r" -> <<"\\", "r">>
    [] OTHER -> <<c>>

RECURSIVE JSONEscape(_)
JSONEscape(s) ==
  IF s = <<>> THEN <<>> ELSE JSONEscapeChar(Head(s)) \o JSONEscape(Tail(s))

JSONValue(c) ==
  IF c.t = "string" THEN <<"\"">> \o JSONEscape(c.s) \o <<"\"">>
  ELSE toString(c)

RECURSIVE JSONJoin(_)
JSONJoin(row) ==
  IF row = <<>> THEN <<>>
  ELSE IF Len(row) = 1 THEN JSONValue(row[1])
  ELSE JSONValue(Head(row)) \o <<",">> \o JSONJoin(Tail(row))

\* JSON.stringify(row)
JSONStringify(row) == <<"[">> \o JSONJoin(row) \o <<"]">>

(***************************************************************************)
(* cleanData (src/app/page.tsx 368-465), stage by stage.                   *)
(***************************************************************************)
MissingDataMessage == "File data is not available"

\* Array.prototype.indexOf: first position holding x (strict equality),
\* 0 when there is none (the code's -1).
indexOf(arr, x) ==
  IF \E i \in DOMAIN arr : arr[i] = x
  THEN CHOOSE i \in DOMAIN arr : arr[i] = x /\ \A j \in 1..(i - 1) : arr[j] # x
  ELSE 0

\* Faulty variant of missingData: the template's row data is not checked.
missingDataSkippingTemplateData(dFile, tFile) ==
  \/ ~IsPresent(dFile.data)
  \/ ~IsPresent(dFile.headers)
  \/ ~IsPresent(tFile.headers)

\* !dataFile.data || !templateFile.data || !dataFile.headers || !templateFile.headers
missingData(dFile, tFile) ==
  \/ ~IsPresent(dFile.data)
  \/ ~IsPresent(tFile.data)
  \/ ~IsPresent(dFile.headers)
  \/ ~IsPresent(tFile.headers)

\* Step 1: the template headers found in the data header, in template order.
keptHeaders(dataHeaders, templateHeaders) ==
  SelectSeq(templateHeaders, LAMBDA h : indexOf(dataHeaders, h) # 0)

columnsToKeep(dataHeaders, templateHeaders) ==
  LET kept == keptHeaders(dataHeaders, templateHeaders)
  IN [k \in DOMAIN kept |-> indexOf(dataHeaders, kept[k])]

\* row[colIndex]: absent when the row has no cell there.
ElementAt(row, i) == IF i \in DOMAIN row THEN Present(row[i]) ELSE Absent

\* row[colIndex] || ''
orEmptyString(o) ==
  IF IsPresent(o) /\ IsTruthy(Get(o)) THEN Get(o) ELSE EmptyString

\* Step 2: every row of the table (header row included) projected.
filteredData(originalData, cols) ==
  [r \in DOMAIN originalData |->
     [k \in DOMAIN cols |-> orEmptyString(ElementAt(originalData[r], cols[k]))]]

\* The dataRows.forEach of the duplicate removal.
RECURSIVE dedupLoop(_, _, _, _)
dedupLoop(rows, uniqueRows, seenRows, removed) ==
  IF rows = <<>>
  THEN [uniqueRows |-> uniqueRows, duplicateRowsRemoved |-> removed]
  ELSE LET rowKey == JSONStringify(Head(rows))
       IN IF rowKey \notin seenRows
          THEN dedupLoop(Tail(rows), Append(uniqueRows, Head(rows)),
                         seenRows \cup {rowKey}, removed)
          ELSE dedupLoop(Tail(rows), uniqueRows, seenRows, removed + 1)

\* Faulty variant of removeDuplicateRows: only the previous row's key is
\* remembered, so a duplicate is dropped only when it follows its original.
RECURSIVE dedupLoopAdjacent(_, _, _, _)
dedupLoopAdjacent(rows, uniqueRows, seenRows, removed) ==
  IF rows = <<>>
  THEN [uniqueRows |-> uniqueRows, duplicateRowsRemoved |-> removed]
  ELSE LET rowKey == JSONStringify(Head(rows))
       IN IF rowKey \notin seenRows
          THEN dedupLoopAdjacent(Tail(rows), Append(uniqueRows, Head(rows)),
                                 {rowKey}, removed)
          ELSE dedupLoopAdjacent(Tail(rows), uniqueRows, {rowKey}, removed + 1)

removeDuplicateRowsAdjacent(dataRows) == dedupLoopAdjacent(dataRows, <<>>, {}, 0)

\* Faulty variant of removeDuplicateRows: the counter reports the rows kept.
removeDuplicateRowsCountingKept(dataRows) ==
  LET done == dedupLoop(dataRows, <<>>, {}, 0)
  IN [uniqueRows |-> done.uniqueRows, duplicateRowsRemoved |-> Len(done.uniqueRows)]

removeDuplicateRows(dataRows) == dedupLoop(dataRows, <<>>, {}, 0)

\* cell && cell.toString().trim() !== ''
cellHasContent(cell) == IsTruthy(cell) /\ trim(toString(cell)) # <<>>

\* row.some(...)
rowHasContent(row) == \E i \in DOMAIN row : cellHasContent(row[i])

\* Faulty variant of removeEmptyRowsFilter: the cells are not trimmed.
removeEmptyRowsFilterNoTrim(dataRows) ==
  SelectSeq(dataRows, LAMBDA row : \E i \in DOMAIN row : IsTruthy(row[i]))

removeEmptyRowsFilter(dataRows) == SelectSeq(dataRows, rowHasContent)

\* Faulty variant of anyTextTransform: normalizeText also starts the per-cell
\* text stage.
anyTextTransformWithNormalize(opts) ==
  \/ opts.trimWhitespace
  \/ opts.convertToUppercase
  \/ opts.convertToLowercase
  \/ opts.removeSpecialCharacters
  \/ opts.removeLeadingZeros
  \/ opts.normalizeText

anyTextTransform(opts) ==
  \/ opts.trimWhitespace
  \/ opts.convertToUppercase
  \/ opts.convertToLowercase
  \/ opts.removeSpecialCharacters
  \/ opts.removeLeadingZeros

\* Faulty variant of applyTrim: only the leading whitespace is removed.
applyTrimStartOnly(s, opts) == IF opts.trimWhitespace THEN trimStart(s) ELSE s

applyTrim(s, opts) == IF opts.trimWhitespace THEN trim(s) ELSE s

\* Faulty variant of applyCase: lower case is tested first.
applyCaseLowerFirst(s, opts) ==
  IF opts.convertToLowercase THEN toLowerCase(s)
  ELSE IF opts.convertToUppercase THEN toUpperCase(s)
  ELSE s

applyCase(s, opts) ==
  IF opts.convertToUppercase THEN toUpperCase(s)
  ELSE IF opts.convertToLowercase THEN toLowerCase(s)
  ELSE s

applySpecial(s, opts) == IF opts.removeSpecialCharacters THEN removeSpecial(s) ELSE s

applyLeadingZeros(s, opts) ==
  IF opts.removeLeadingZeros /\ leadingZerosTest(s) THEN stripLeadingZeros(s) ELSE s

\* Faulty variant of transformCell: the leading zeros are removed before the
\* special characters.
transformCellZerosBeforeSpecial(cell, opts) ==
  Str(applySpecial(applyLeadingZeros(applyCase(applyTrim(toString(cell), opts),
                                                 opts), opts), opts))

\* The body of row.map(cell => ...): cell?.toString() || '' and then the
\* enabled transforms in the order of the code.
transformCell(cell, opts) ==
  Str(applyLeadingZeros(applySpecial(applyCase(applyTrim(toString(cell), opts),
                                                 opts), opts), opts))

transformRows(dataRows, opts) ==
  [r \in DOMAIN dataRows |->
     [k \in DOMAIN dataRows[r] |-> transformCell(dataRows[r][k], opts)]]

\* Faulty variant of afterDedup: the rows are compared after a whitespace trim
\* of their cells.
afterDedupOnTrimmedCells(dataRows, opts) ==
  LET trimmed(row) == [k \in DOMAIN row |-> trim(toString(row[k]))]
      first(i) == \A j \in 1..(i - 1) : trimmed(dataRows[j]) # trimmed(dataRows[i])
      keep == {i \in DOMAIN dataRows : first(i)}
      RECURSIVE pick(_)
      pick(i) == IF i > Len(dataRows) THEN <<>>
                 ELSE (IF i \in keep THEN <<dataRows[i]>> ELSE <<>>) \o pick(i + 1)
  IN IF opts.removeDuplicates THEN pick(1) ELSE dataRows

\* The three row stages applied to the projected data rows.
afterDedup(dataRows, opts) ==
  IF opts.removeDuplicates THEN removeDuplicateRows(dataRows).uniqueRows
  ELSE dataRows

afterEmptyRows(dataRows, opts) ==
  IF opts.removeEmptyRows THEN removeEmptyRowsFilter(dataRows) ELSE dataRows

afterTransforms(dataRows, opts) ==
  IF anyTextTransform(opts) THEN transformRows(dataRows, opts) ELSE dataRows

\* Faulty variant of cleanDataReturn: the per-cell transforms run over the
\* header row as well.
cleanDataReturnTransformingHeader(dFile, tFile, opts) ==
  LET templateHeaders == Get(tFile.headers)
      dataHeaders == Get(dFile.headers)
      originalData == Get(dFile.data)
      cols == columnsToKeep(dataHeaders, templateHeaders)
      kept == keptHeaders(dataHeaders, templateHeaders)
      filtered == filteredData(originalData, cols)
      process == Len(filtered) > 1
      dataRows == Tail(filtered)
      removed ==
        IF process /\ opts.removeDuplicates
        THEN removeDuplicateRows(dataRows).duplicateRowsRemoved
        ELSE 0
      cleanedData ==
        IF process
        THEN afterTransforms(<<Head(filtered)>>
                               \o afterEmptyRows(afterDedup(dataRows, opts), opts),
                             opts)
        ELSE filtered
  IN [totalRowsCleaned |-> Len(cleanedData) - 1,
      columnsDeleted |-> Len(dataHeaders) - Len(kept),
      duplicateRowsRemoved |-> removed,
      cleanedData |-> cleanedData]

\* The value cleanData returns when it does not throw.
cleanDataReturn(dFile, tFile, opts) ==
  LET templateHeaders == Get(tFile.headers)
      dataHeaders == Get(dFile.headers)
      originalData == Get(dFile.data)
      cols == columnsToKeep(dataHeaders, templateHeaders)
      kept == keptHeaders(dataHeaders, templateHeaders)
      filtered == filteredData(originalData, cols)
      process == Len(filtered) > 1
      dataRows == Tail(filtered)
      removed ==
        IF process /\ opts.removeDuplicates
        THEN removeDuplicateRows(dataRows).duplicateRowsRemoved
        ELSE 0
      cleanedData ==
        IF process
        THEN <<Head(filtered)>>
             \o afterTransforms(afterEmptyRows(afterDedup(dataRows, opts), opts), opts)
        ELSE filtered
  IN [totalRowsCleaned |-> Len(cleanedData) - 1,
      columnsDeleted |-> Len(dataHeaders) - Len(kept),
      duplicateRowsRemoved |-> removed,
      cleanedData |-> cleanedData]

(***************************************************************************)
(* The files cleanData is called with.  handleCleanData passes two         *)
(* elements of uploadedFiles; an element is a parsed file (parseFile sets  *)
(* headers = data[0] || []), a file whose parse failed (neither field), or *)
(* a file restored from localStorage (headers without data).               *)
(***************************************************************************)
parseFile(table) ==
  [data |-> Present(table),
   headers |-> Present(IF table # <<>> THEN table[1] ELSE <<>>)]

UnparsedFile == [data |-> Absent, headers |-> Absent]

RestoredFile(headers) == [data |-> Absent, headers |-> Present(headers)]

OptionNames ==
  {"removeDuplicates", "removeEmptyRows", "removeEmptyColumns", "trimWhitespace",
   "normalizeText", "removeSpecialCharacters", "standardizeDates",
   "convertToUppercase", "convertToLowercase", "removeLeadingZeros"}

\* The initial cleaningOptions: every flag off.
DefaultOptions == [n \in OptionNames |-> FALSE]

AllOptions == [OptionNames -> BOOLEAN]

\* The flags cleanData reads.
EffectiveOptions ==
  {o \in AllOptions :
     ~o.removeEmptyColumns /\ ~o.normalizeText /\ ~o.standardizeDates}

RowStageOptions ==
  {[DefaultOptions EXCEPT !.removeDuplicates = b1, !.removeEmptyRows = b2] :
     b1 \in BOOLEAN, b2 \in BOOLEAN}

SeqsUpTo(S, n) == UNION {[1..k -> S] : k \in 0..n}

\* Column inputs: headers of up to MaxCols names (repeats allowed), rows whose
\* cells name their column, a row pair differing in the last column only, a
\* row one cell short, and the same rows at full width under shorter headers.
HeaderNames == {Str(<<"A">>), Str(<<"B">>), Num(0)}

Headers == SeqsUpTo(HeaderNames, MaxCols)

ColumnRow(n) == [k \in 1..n |-> Str(<<LowerLetters[k]>>)]

ColumnRowsFor(n) ==
  LET full == ColumnRow(n)
      other == IF n > 0 THEN [full EXCEPT ![n] = Str(<<"z">>)] ELSE full
      short == IF n > 0 THEN SubSeq(full, 1, n - 1) ELSE full
  IN {<<>>, <<full>>, <<full, full>>, <<full, other>>, <<short>>}

ColumnTables ==
  {<<>>} \cup {<<h>> \o rows : h \in Headers, rows \in ColumnRowsFor(MaxCols)}
         \cup UNION {{<<h>> \o rows : rows \in ColumnRowsFor(Len(h))} : h \in Headers}

ColumnInputs ==
  LET dataFiles == {parseFile(t) : t \in ColumnTables}
                     \cup {UnparsedFile, RestoredFile(<<Str(<<"A">>)>>)}
      templateFiles == {parseFile(<<h>>) : h \in Headers}
                         \cup {parseFile(<<>>), UnparsedFile,
                               RestoredFile(<<Str(<<"A">>)>>)}
  IN [dataFile : dataFiles, templateFile : templateFiles, options : RowStageOptions]

\* Row inputs: one column kept, up to MaxRows one-cell rows, every setting of
\* the flags cleanData reads.
RowCells ==
  {Str(<<>>), Str(<<" ">>), Str(<<"a">>), Str(<<" ", "a">>), Str(<<"#">>), Num(0)}

RowTables ==
  {<<<<Str(<<"A">>)>>>> \o [r \in DOMAIN cells |-> <<cells[r]>>] :
     cells \in SeqsUpTo(RowCells, MaxRows)}

RowInputs ==
  [dataFile : {parseFile(t) : t \in RowTables},
   templateFile : {parseFile(<<<<Str(<<"A">>)>>>>)},
   options : EffectiveOptions]

\* Flag inputs: every one of the option sets, on the tables of at most one row.
FlagInputs ==
  [dataFile : {parseFile(t) : t \in {u \in RowTables : Len(u) <= 2}},
   templateFile : {parseFile(<<<<Str(<<"A">>)>>>>)},
   options : AllOptions]

\* Cell inputs: one row of one cell, a string of up to MaxLen characters or a
\* spreadsheet number or boolean.
CellAlphabet == {"0", "7", "a", "A", " ", "#"}

CellValues ==
  {Str(s) : s \in SeqsUpTo(CellAlphabet, MaxLen)}
    \cup {Num(7), Bool(TRUE), Bool(FALSE)}

CellInputs ==
  [dataFile : {parseFile(<<<<Str(<<"A">>)>>, <<c>>>>) : c \in CellValues},
   templateFile : {parseFile(<<<<Str(<<"A">>)>>>>)},
   options : EffectiveOptions]

Inputs == ColumnInputs \cup RowInputs \cup FlagInputs \cup CellInputs

\* The page component as useState initialises it (nothing saved in
\* localStorage for the mount effect to restore).
PageStart ==
  /\ currentStep = 1
  /\ uploadedFiles = <<>>
  /\ cleaningResult = Absent
  /\ isProcessing = FALSE
  /\ errorText = Absent
  /\ autoAdvanceCountdown = Absent
  /\ cleaningOptions = DefaultOptions
  /\ parsing = <<>>
  /\ cleaning = Absent

(***************************************************************************)
(* The state machine: one call of cleanData on the chosen input.           *)
(***************************************************************************)
Init ==
  /\ \E in \in Inputs :
       /\ dataFile = in.dataFile
       /\ templateFile = in.templateFile
       /\ options = in.options
  /\ pc = "start"
  /\ result = Absent
  /\ error = Absent
  /\ PageStart

\* Faulty variant of cleanData: the cleaned table is written back into the
\* data file it was given.
cleanDataInPlace ==
  /\ pc = "start"
  /\ IF missingData(dataFile, templateFile)
     THEN /\ pc' = "thrown"
          /\ error' = Present(MissingDataMessage)
          /\ result' = Absent
          /\ dataFile' = dataFile
     ELSE /\ pc' = "returned"
          /\ result' = Present(cleanDataReturn(dataFile, templateFile, options))
          /\ error' = Absent
          /\ dataFile' =
               [dataFile EXCEPT !.data =
                  Present(cleanDataReturn(dataFile, templateFile, options).cleanedData)]
  /\ UNCHANGED <<templateFile, options>>
  /\ UNCHANGED pageVars

cleanData ==
  /\ pc = "start"
  /\ IF missingData(dataFile, templateFile)
     THEN /\ pc' = "thrown"
          /\ error' = Present(MissingDataMessage)
          /\ result' = Absent
     ELSE /\ pc' = "returned"
          /\ result' = Present(cleanDataReturn(dataFile, templateFile, options))
          /\ error' = Absent
  /\ UNCHANGED <<dataFile, templateFile, options>>
  /\ UNCHANGED pageVars

Next == cleanData

Spec == Init /\ [][Next]_vars

\* Option inputs: every one of the option sets, on the tables of at most one
\* row and on one-cell tables with mixed case, blanks, a special character,
\* leading zeros, a number and a boolean.
OptionCells ==
  {Str(<<"a", "A">>), Str(<<" ", "a", "#">>), Str(<<"0", "7">>), Num(7),
   Bool(TRUE)}

OptionInputs ==
  FlagInputs \cup
  [dataFile : {parseFile(<<<<Str(<<"A">>)>>, <<c>>>>) : c \in OptionCells},
   templateFile : {parseFile(<<<<Str(<<"A">>)>>>>)},
   options : AllOptions]

\* One call of cleanData under any of the option sets.
OptionInit ==
  /\ \E in \in OptionInputs :
       /\ dataFile = in.dataFile
       /\ templateFile = in.templateFile
       /\ options = in.options
  /\ pc = "start"
  /\ result = Absent
  /\ error = Absent
  /\ PageStart

OptionSpec == OptionInit /\ [][Next]_vars

\* One call of cleanData on a one-cell table, under every setting of the
\* flags cleanData reads.
CellInit ==
  /\ \E in \in CellInputs :
       /\ dataFile = in.dataFile
       /\ templateFile = in.templateFile
       /\ options = in.options
  /\ pc = "start"
  /\ result = Absent
  /\ error = Absent
  /\ PageStart

CellSpec == CellInit /\ [][Next]_vars

\* Header inputs: one kept column whose header cell every per-cell transform
\* would change or that is blank, and data rows that repeat the header cell.
HeaderCells == {Str(<<" ", "A", "#">>), Str(<<"0", "7">>), Str(<<" ">>)}

HeaderTables ==
  UNION {{<<<<h>>>> \o rows : rows \in SeqsUpTo({<<h>>, <<Str(<<"a">>)>>}, MaxRows)} :
           h \in HeaderCells}

HeaderInputs ==
  UNION {[dataFile : {parseFile(t)},
          templateFile : {parseFile(<<Head(t)>>)},
          options : EffectiveOptions] : t \in HeaderTables}

\* One call of cleanData on a table of several rows or several columns.
RowInit ==
  /\ \E in \in RowInputs \cup ColumnInputs \cup HeaderInputs :
       /\ dataFile = in.dataFile
       /\ templateFile = in.templateFile
       /\ options = in.options
  /\ pc = "start"
  /\ result = Absent
  /\ error = Absent
  /\ PageStart

RowSpec == RowInit /\ [][Next]_vars

(***************************************************************************)
(* The wizard.  An uploaded file is a record: name, size, the optional     *)
(* rowCount, data and headers parseFile fills in, and the two marks.  A    *)
(* file is identified by its position in uploadedFiles: the ids the code   *)
(* compares (timestamp plus random suffix) are unique, so two entries have *)
(* the same id only if they are the same entry.                            *)
(***************************************************************************)
DataTable ==
  << <<Str(<<"A">>), Str(<<"B">>)>>,
     <<Str(<<"a">>), Str(<<"b">>)>>,
     <<Str(<<"a">>), Str(<<"b">>)>> >>

TemplateTable == << <<Str(<<"A">>)>> >>

\* The files the user drops: name, size in bytes and the table parseFile
\* reads from the file (absent when parseFile rejects the file).
DroppedFiles ==
  {[name |-> "data", size |-> 4, table |-> Present(DataTable)],
   [name |-> "template", size |-> 1, table |-> Present(TemplateTable)],
   [name |-> "broken", size |-> 2, table |-> Absent]}

\* rowCount: Math.max(0, data.length - 1)
rowCountOf(table) == IF Len(table) - 1 > 0 THEN Len(table) - 1 ELSE 0

\* The entry processFiles builds for a dropped file: the parse results are
\* set when parseFile resolves and left undefined when it rejects.
uploadedFile(f) ==
  IF IsPresent(f.table)
  THEN [name |-> f.name, size |-> f.size,
        rowCount |-> Present(rowCountOf(Get(f.table))),
        data |-> parseFile(Get(f.table)).data,
        headers |-> parseFile(Get(f.table)).headers,
        isDataFile |-> FALSE, isTemplateFile |-> FALSE]
  ELSE [name |-> f.name, size |-> f.size, rowCount |-> Absent,
        data |-> Absent, headers |-> Absent,
        isDataFile |-> FALSE, isTemplateFile |-> FALSE]

\* file.rowCount || 0
rowCountOrZero(file) == IF IsPresent(file.rowCount) THEN Get(file.rowCount) ELSE 0

\* The comparator of detectFileTypes: negative when a sorts before b.  The
\* strict !== holds between a number and undefined as well.
compareFiles(a, b) ==
  IF a.rowCount # b.rowCount
  THEN rowCountOrZero(b) - rowCountOrZero(a)
  ELSE b.size - a.size

Orders(n) ==
  {p \in [1..n -> 1..n] : \A i \in 1..n : \E j \in 1..n : p[j] = i}

\* Whether compareFiles is a consistent comparator on the files, as
\* Array.prototype.sort requires for a defined order.
consistentComparator(files) ==
  \A i \in DOMAIN files : \A j \in DOMAIN files : \A k \in DOMAIN files :
    LET ab == compareFiles(files[i], files[j])
        bc == compareFiles(files[j], files[k])
        ac == compareFiles(files[i], files[k])
    IN /\ (ab = 0 /\ bc = 0) => ac = 0
       /\ (ab < 0 /\ bc < 0) => ac < 0
       /\ (ab > 0 /\ bc > 0) => ac > 0

\* The orders [...files].sort(compareFiles) can produce, as positions of
\* files: the stable sorted order when the comparator is consistent, any
\* order otherwise (the order is implementation-defined then).
sortedOrders(files) ==
  IF consistentComparator(files)
  THEN {p \in Orders(Len(files)) :
          \A i \in 1..Len(files) : \A j \in 1..Len(files) :
            i < j => \/ compareFiles(files[p[i]], files[p[j]]) < 0
                     \/ /\ compareFiles(files[p[i]], files[p[j]]) = 0
                        /\ p[i] < p[j]}
  ELSE Orders(Len(files))

\* files.map(...) of detectFileTypes for the sorted order p.
markFiles(files, p) ==
  [i \in DOMAIN files |->
     [files[i] EXCEPT !.isDataFile = (i = p[1]),
                      !.isTemplateFile = (i # p[1] /\ i = p[2])]]

\* The lists detectFileTypes can return.
detectFileTypes(files) ==
  IF Len(files) < 2 THEN {files}
  ELSE {markFiles(files, p) : p \in sortedOrders(files)}

\* The values of the render a handler was created in and reads later.
Render ==
  [currentStep |-> currentStep, uploadedFiles |-> uploadedFiles,
   cleaningResult |-> cleaningResult, cleaningOptions |-> cleaningOptions]

\* The condition of handleStepChange, which the card headers repeat as
\* isAccessible, on the values of render r.
canAccess(newStep, r) ==
  \/ newStep = 1
  \/ newStep = 2 /\ (newStep <= r.currentStep \/ Len(r.uploadedFiles) >= 2)
  \/ newStep = 3 /\ (newStep <= r.currentStep \/ r.cleaningResult # Absent)

handleStepChange(newStep, r) ==
  IF canAccess(newStep, r)
  THEN /\ currentStep' = newStep
       /\ autoAdvanceCountdown' = Absent
  ELSE UNCHANGED <<currentStep, autoAdvanceCountdown>>

handleNextStep(r) ==
  IF r.currentStep = 1 /\ Len(r.uploadedFiles) >= 2
  THEN handleStepChange(2, r)
  ELSE UNCHANGED <<currentStep, autoAdvanceCountdown>>

CountdownStart == 5
ParseFailedMessage == "Failed to parse file"
AssignLabelsMessage ==
  "Please assign Template and Data labels to files before proceeding."
ProcessFailedMessage == "Failed to process data: File data is not available"

\* The drops of the user: one file at a time.
Drops == {<<f>> : f \in DroppedFiles}

\* Step 1: files are dropped on the drop zone or picked in the file dialog;
\* processFiles starts and waits for parseFile.
dropFiles(drop) ==
  /\ currentStep = 1
  /\ Len(uploadedFiles) + Len(drop) <= MaxFiles
  /\ parsing' = Append(parsing, [uploadedFiles |-> uploadedFiles, files |-> drop])
  /\ UNCHANGED <<currentStep, uploadedFiles, cleaningResult, isProcessing,
                 errorText, autoAdvanceCountdown, cleaningOptions, cleaning>>
  /\ UNCHANGED callVars

RemoveAt(seq, k) == SubSeq(seq, 1, k - 1) \o SubSeq(seq, k + 1, Len(seq))

\* parseFile has settled for every file of the call parsing[k]: the rest of
\* processFiles runs on the uploadedFiles of the render that started it.
processFiles(k) ==
  /\ k \in DOMAIN parsing
  /\ LET newFiles == [i \in DOMAIN parsing[k].files |->
                        uploadedFile(parsing[k].files[i])]
         allFiles == parsing[k].uploadedFiles \o newFiles
     IN /\ \E detectedFiles \in detectFileTypes(allFiles) :
             uploadedFiles' = detectedFiles
        /\ errorText' =
             IF \E i \in DOMAIN newFiles : newFiles[i].data = Absent
             THEN Present(ParseFailedMessage) ELSE errorText
        /\ autoAdvanceCountdown' =
             IF Len(allFiles) >= 2 THEN Present(CountdownStart)
             ELSE autoAdvanceCountdown
  /\ parsing' = RemoveAt(parsing, k)
  /\ UNCHANGED <<currentStep, cleaningResult, isProcessing, cleaningOptions,
                 cleaning>>
  /\ UNCHANGED callVars

\* Step 1: the delete button of a file.
removeFile(index) ==
  /\ currentStep = 1
  /\ index \in DOMAIN uploadedFiles
  /\ LET newFiles == RemoveAt(uploadedFiles, index)
     IN /\ \E detectedFiles \in detectFileTypes(newFiles) :
             uploadedFiles' = detectedFiles
        /\ autoAdvanceCountdown' =
             IF Len(newFiles) < 2 THEN Absent ELSE autoAdvanceCountdown
  /\ UNCHANGED <<currentStep, cleaningResult, isProcessing, errorText,
                 cleaningOptions, parsing, cleaning>>
  /\ UNCHANGED callVars

\* Step 1: Clear All Files, shown while there are files.
clearAllFiles ==
  /\ currentStep = 1
  /\ Len(uploadedFiles) > 0
  /\ uploadedFiles' = <<>>
  /\ errorText' = Absent
  /\ autoAdvanceCountdown' = Absent
  /\ UNCHANGED <<currentStep, cleaningResult, isProcessing, cleaningOptions,
                 parsing, cleaning>>
  /\ UNCHANGED callVars

\* Step 1: Cancel Auto-advance, shown while the countdown runs.
cancelAutoAdvance ==
  /\ currentStep = 1
  /\ Len(uploadedFiles) >= 2
  /\ autoAdvanceCountdown # Absent
  /\ autoAdvanceCountdown' = Absent
  /\ UNCHANGED <<currentStep, uploadedFiles, cleaningResult, isProcessing,
                 errorText, cleaningOptions, parsing, cleaning>>
  /\ UNCHANGED callVars

\* The countdown effect: the interval decrements a positive count, and the
\* effect of the render in which the count is 0 calls handleNextStep and
\* clears the count before any other handler runs.
countdownTick ==
  /\ autoAdvanceCountdown # Absent
  /\ Get(autoAdvanceCountdown) > 0
  /\ IF Get(autoAdvanceCountdown) - 1 > 0
     THEN /\ autoAdvanceCountdown' = Present(Get(autoAdvanceCountdown) - 1)
          /\ UNCHANGED currentStep
     ELSE /\ autoAdvanceCountdown' = Absent
          /\ currentStep' =
               IF currentStep = 1 /\ Len(uploadedFiles) >= 2
                  /\ canAccess(2, Render)
               THEN 2 ELSE currentStep
  /\ UNCHANGED <<uploadedFiles, cleaningResult, isProcessing, errorText,
                 cleaningOptions, parsing, cleaning>>
  /\ UNCHANGED callVars

\* Step 1: the Next button, shown with two or more files.
nextClick ==
  /\ currentStep = 1
  /\ Len(uploadedFiles) >= 2
  /\ handleNextStep(Render)
  /\ UNCHANGED <<uploadedFiles, cleaningResult, isProcessing, errorText,
                 cleaningOptions, parsing, cleaning>>
  /\ UNCHANGED callVars

\* A click on the header of a card that is not the active one.
headerClick(step) ==
  /\ step # currentStep
  /\ canAccess(step, Render)
  /\ handleStepChange(step, Render)
  /\ UNCHANGED <<uploadedFiles, cleaningResult, isProcessing, errorText,
                 cleaningOptions, parsing, cleaning>>
  /\ UNCHANGED callVars

\* Faulty variant of toggleFileType: the mark of the other files is kept.
toggleFileTypeKeepingOthers(index, newType) ==
  /\ currentStep = 2
  /\ index \in DOMAIN uploadedFiles
  /\ uploadedFiles' =
       [uploadedFiles EXCEPT ![index] =
          [@ EXCEPT !.isDataFile = (newType = "data"),
                    !.isTemplateFile = (newType = "template")]]
  /\ UNCHANGED <<currentStep, cleaningResult, isProcessing, errorText,
                 autoAdvanceCountdown, cleaningOptions, parsing, cleaning>>
  /\ UNCHANGED callVars

\* Step 2: the Data or Template button of the file at position index.
toggleFileType(index, newType) ==
  /\ currentStep = 2
  /\ index \in DOMAIN uploadedFiles
  /\ uploadedFiles' =
       [i \in DOMAIN uploadedFiles |->
          IF i = index
          THEN [uploadedFiles[i] EXCEPT !.isDataFile = (newType = "data"),
                                        !.isTemplateFile = (newType = "template")]
          ELSE IF newType = "data" /\ uploadedFiles[i].isDataFile
          THEN [uploadedFiles[i] EXCEPT !.isDataFile = FALSE]
          ELSE IF newType = "template" /\ uploadedFiles[i].isTemplateFile
          THEN [uploadedFiles[i] EXCEPT !.isTemplateFile = FALSE]
          ELSE uploadedFiles[i]]
  /\ UNCHANGED <<currentStep, cleaningResult, isProcessing, errorText,
                 autoAdvanceCountdown, cleaningOptions, parsing, cleaning>>
  /\ UNCHANGED callVars

\* The checkboxes the user clicks.
ClickedOptions == {"removeDuplicates"}

\* Step 2: a checkbox of the cleaning options is clicked.
setCleaningOptions(name) ==
  /\ currentStep = 2
  /\ cleaningOptions' = [cleaningOptions EXCEPT ![name] = ~cleaningOptions[name]]
  /\ UNCHANGED <<currentStep, uploadedFiles, cleaningResult, isProcessing,
                 errorText, autoAdvanceCountdown, parsing, cleaning>>
  /\ UNCHANGED callVars

\* uploadedFiles.find(file => file[mark]): the first marked file, if any.
findFile(files, mark) ==
  LET marked == {i \in DOMAIN files : files[i][mark]}
  IN IF marked = {} THEN Absent
     ELSE Present(files[CHOOSE i \in marked : \A j \in marked : i <= j])

\* Faulty variant of handleCleanData: setIsProcessing(true) comes before the
\* test of the two marks.
handleCleanDataFlaggingFirst ==
  /\ currentStep = 2
  /\ ~isProcessing
  /\ cleaning = Absent
  /\ isProcessing' = TRUE
  /\ IF \/ findFile(uploadedFiles, "isTemplateFile") = Absent
        \/ findFile(uploadedFiles, "isDataFile") = Absent
     THEN /\ errorText' = Present(AssignLabelsMessage)
          /\ UNCHANGED cleaning
     ELSE /\ cleaning' =
               Present([dataFile |-> Get(findFile(uploadedFiles, "isDataFile")),
                        templateFile |->
                          Get(findFile(uploadedFiles, "isTemplateFile")),
                        cleaningOptions |-> cleaningOptions,
                        currentStep |-> currentStep,
                        cleaningResult |-> cleaningResult])
          /\ UNCHANGED errorText
  /\ UNCHANGED <<currentStep, uploadedFiles, cleaningResult,
                 autoAdvanceCountdown, cleaningOptions, parsing>>
  /\ UNCHANGED callVars

\* Step 2: Clean the Data (the button is disabled while isProcessing).  Up
\* to the await: without both marks the error is set and nothing starts.
\* At most one call is in flight: its timer runs for one second.  The call
\* keeps the two files it found and, of its render, the values cleanData
\* and handleStepChange(3) read after the await.
handleCleanData ==
  /\ currentStep = 2
  /\ ~isProcessing
  /\ cleaning = Absent
  /\ IF \/ findFile(uploadedFiles, "isTemplateFile") = Absent
        \/ findFile(uploadedFiles, "isDataFile") = Absent
     THEN /\ errorText' = Present(AssignLabelsMessage)
          /\ UNCHANGED <<isProcessing, cleaning>>
     ELSE /\ isProcessing' = TRUE
          /\ cleaning' =
               Present([dataFile |-> Get(findFile(uploadedFiles, "isDataFile")),
                        templateFile |->
                          Get(findFile(uploadedFiles, "isTemplateFile")),
                        cleaningOptions |-> cleaningOptions,
                        currentStep |-> currentStep,
                        cleaningResult |-> cleaningResult])
          /\ UNCHANGED errorText
  /\ UNCHANGED <<currentStep, uploadedFiles, cleaningResult,
                 autoAdvanceCountdown, cleaningOptions, parsing>>
  /\ UNCHANGED callVars

\* The timer of the call in flight has fired: cleanData runs on the files
\* and options of the render that started the call, and handleStepChange(3)
\* is the one of that render too.
handleCleanDataResumed ==
  /\ cleaning # Absent
  /\ LET r == Get(cleaning)
         tFile == r.templateFile
         dFile == r.dataFile
     IN IF missingData(dFile, tFile)
        THEN /\ errorText' = Present(ProcessFailedMessage)
             /\ UNCHANGED <<cleaningResult, currentStep, autoAdvanceCountdown>>
        ELSE /\ cleaningResult' =
                  Present(cleanDataReturn(dFile, tFile, r.cleaningOptions))
             /\ handleStepChange(3, r)
             /\ UNCHANGED errorText
  /\ isProcessing' = FALSE
  /\ cleaning' = Absent
  /\ UNCHANGED <<uploadedFiles, cleaningOptions, parsing>>
  /\ UNCHANGED callVars

\* Steps 1 and 2: the close button of the error banner.
dismissError ==
  /\ currentStep \in {1, 2}
  /\ errorText # Absent
  /\ errorText' = Absent
  /\ UNCHANGED <<currentStep, uploadedFiles, cleaningResult, isProcessing,
                 autoAdvanceCountdown, cleaningOptions, parsing, cleaning>>
  /\ UNCHANGED callVars

\* Faulty variant of startOver: the step is not reset.
startOverKeepingStep ==
  /\ currentStep = 3
  /\ uploadedFiles' = <<>>
  /\ cleaningResult' = Absent
  /\ errorText' = Absent
  /\ isProcessing' = FALSE
  /\ autoAdvanceCountdown' = Absent
  /\ cleaningOptions' = DefaultOptions
  /\ UNCHANGED <<currentStep, parsing, cleaning>>
  /\ UNCHANGED callVars

\* Faulty variant of startOver: the cleaning options are left as they are.
startOverKeepingOptions ==
  /\ currentStep = 3
  /\ currentStep' = 1
  /\ uploadedFiles' = <<>>
  /\ cleaningResult' = Absent
  /\ errorText' = Absent
  /\ isProcessing' = FALSE
  /\ autoAdvanceCountdown' = Absent
  /\ UNCHANGED <<cleaningOptions, parsing, cleaning>>
  /\ UNCHANGED callVars

\* Step 3: Start Over.
startOver ==
  /\ currentStep = 3
  /\ currentStep' = 1
  /\ uploadedFiles' = <<>>
  /\ cleaningResult' = Absent
  /\ errorText' = Absent
  /\ isProcessing' = FALSE
  /\ autoAdvanceCountdown' = Absent
  /\ cleaningOptions' = DefaultOptions
  /\ UNCHANGED <<parsing, cleaning>>
  /\ UNCHANGED callVars

\* The page after mount: no call of cleanData is under way.
WizardInit ==
  /\ dataFile = UnparsedFile
  /\ templateFile = UnparsedFile
  /\ options = DefaultOptions
  /\ pc = "idle"
  /\ result = Absent
  /\ error = Absent
  /\ PageStart

\* No processFiles call waits for parseFile.
parsed == parsing = <<>>

\* Neither a processFiles call nor a cleaning call is waiting.
idle == parsing = <<>> /\ cleaning = Absent

\* The schedule: parseFile settles before the next event of the page (while
\* a processFiles call waits, its continuation is the only step), and the
\* list of files is changed outside the second a cleaning call waits for
\* its timer; every other event can fall into that second.
WizardNext ==
  \/ \E k \in DOMAIN parsing : processFiles(k)
  \/ idle /\ \E drop \in Drops : dropFiles(drop)
  \/ idle /\ \E index \in 1..MaxFiles : removeFile(index)
  \/ idle /\ clearAllFiles
  \/ parsed /\ cancelAutoAdvance
  \/ parsed /\ countdownTick
  \/ parsed /\ nextClick
  \/ parsed /\ \E step \in 1..3 : headerClick(step)
  \/ parsed /\ \E index \in 1..MaxFiles : \E newType \in {"data", "template"} :
                 toggleFileType(index, newType)
  \/ parsed /\ \E name \in ClickedOptions : setCleaningOptions(name)
  \/ parsed /\ handleCleanData
  \/ parsed /\ handleCleanDataResumed
  \/ parsed /\ dismissError
  \/ parsed /\ startOver

WizardSpec == WizardInit /\ [][WizardNext]_vars

\* The schedule without the settling assumption: up to MaxParsing calls of
\* processFiles wait for parseFile at once, and every event of Steps 1 and 2
\* that touches the file list or the countdown can fall between the start
\* of a call and its continuation.
UploadNext ==
  \/ \E k \in DOMAIN parsing : processFiles(k)
  \/ Len(parsing) < MaxParsing /\ \E drop \in Drops : dropFiles(drop)
  \/ \E index \in 1..MaxFiles : removeFile(index)
  \/ clearAllFiles
  \/ cancelAutoAdvance
  \/ countdownTick
  \/ nextClick
  \/ \E step \in 1..2 : headerClick(step)
  \/ \E index \in 1..MaxFiles : \E newType \in {"data", "template"} :
       toggleFileType(index, newType)
  \/ dismissError

UploadSpec == WizardInit /\ [][UploadNext]_vars

(***************************************************************************)
(* Vocabulary of the properties.                                           *)
(***************************************************************************)
Returned == pc = "returned"
Thrown == pc = "thrown"

Output == Get(result)
OutputTable == Output.cleanedData
OutputRows == IF OutputTable = <<>> THEN <<>> ELSE Tail(OutputTable)

InputTable == Get(dataFile.data)
InputHeader == Get(dataFile.headers)
InputRows == IF InputTable = <<>> THEN <<>> ELSE Tail(InputTable)
TemplateHeader == Get(templateFile.headers)

\* The template names that occur in the data header, in template order.
SharedNames == SelectSeq(TemplateHeader, LAMBDA h : h \in Range(InputHeader))

\* The positions cleanData keeps, and a row restricted to them with the empty
\* string where the row has no cell (projection as section 4.1 step 2 states it).
KeptColumns == columnsToKeep(InputHeader, TemplateHeader)

RowOnKeptColumns(row) ==
  [k \in DOMAIN KeptColumns |->
     IF KeptColumns[k] \in DOMAIN row THEN row[KeptColumns[k]] ELSE EmptyString]

\* The rows as cleanData projects them (header row first).
Projected == filteredData(InputTable, KeptColumns)
ProjectedRows == IF Projected = <<>> THEN <<>> ELSE Tail(Projected)

NoTwoRowsEqual(rows) ==
  \A i \in DOMAIN rows : \A j \in DOMAIN rows : i # j => rows[i] # rows[j]

(***************************************************************************)
(* C1: for every accepted data and template table, the header row of the   *)
(* returned table is the list of template header names that also occur in  *)
(* the data header, in template order.                                     *)
(* Violated: an empty data table returns a table with no header row at     *)
(* all, and a falsy header cell (a spreadsheet 0) comes back as ''.        *)
(***************************************************************************)
C1_HeaderRowIsSharedNames ==
  Returned => /\ OutputTable # <<>>
              /\ Head(OutputTable) = SharedNames

(***************************************************************************)
(* C2: columnsDeleted is the number of distinct data header names minus    *)
(* the number of kept header names, and is never negative, repeated names  *)
(* included.                                                               *)
(* Violated: the code subtracts list lengths, so a template that repeats a *)
(* name of the data header gives a negative count.                         *)
(***************************************************************************)
C2_ColumnsDeletedDistinctMinusKept ==
  Returned => /\ Output.columnsDeleted
                   = Cardinality(Range(InputHeader)) - Len(SharedNames)
              /\ Output.columnsDeleted >= 0

(***************************************************************************)
(* C3 as stated: with remove-duplicates enabled, whatever the other flags, *)
(* no two data rows of the returned table are identical.                   *)
(* Violated: the transforms run after the duplicate removal and can make   *)
(* distinct rows equal (" a" and "a" under trim-whitespace).               *)
(***************************************************************************)
C3_Original_NoEqualRowsAnyFlags ==
  (Returned /\ options.removeDuplicates) => NoTwoRowsEqual(OutputRows)

(***************************************************************************)
(* C3 amended: with remove-duplicates enabled and none of the five         *)
(* per-cell text transforms enabled, no two data rows of the returned      *)
(* table are identical.                                                    *)
(***************************************************************************)
C3_NoEqualRowsWithoutTransforms ==
  (Returned /\ options.removeDuplicates /\ ~anyTextTransform(options))
    => NoTwoRowsEqual(OutputRows)

\* A call that removed a duplicate and still returned two data rows.
C3_Witness ==
  /\ Returned
  /\ options.removeDuplicates
  /\ ~anyTextTransform(options)
  /\ Output.duplicateRowsRemoved > 0
  /\ Len(OutputRows) >= 2

(***************************************************************************)
(* C4: with remove-duplicates enabled, duplicateRowsRemoved is the number  *)
(* of data rows minus the number of distinct data rows as seen on the kept *)
(* columns; with it disabled, duplicateRowsRemoved is 0.                   *)
(* Violated: projection turns a falsy cell (0, false) into '', so a row    *)
(* holding 0 and a row holding '' are counted as duplicates.               *)
(***************************************************************************)
C4_DuplicateCountIsRowsMinusDistinct ==
  Returned =>
    Output.duplicateRowsRemoved =
      IF options.removeDuplicates
      THEN Len(InputRows)
             - Cardinality({RowOnKeptColumns(InputRows[i]) : i \in DOMAIN InputRows})
      ELSE 0

\* The returned data rows line up with the projected ones: no row was dropped.
RowsAligned == Len(OutputRows) = Len(ProjectedRows)

\* A row as the per-cell stage returns it under the current options.
AsReturned(row) ==
  IF anyTextTransform(options)
  THEN [k \in DOMAIN row |-> transformCell(row[k], options)]
  ELSE row

HasNonBlankCell(row) == \E k \in DOMAIN row : trim(toString(row[k])) # <<>>

(***************************************************************************)
(* C5 as stated: with remove-empty-rows enabled, whatever the other flags, *)
(* every data row of the returned table has a cell that is non-empty after *)
(* whitespace trim.                                                        *)
(* Violated: the transforms run after the empty-row removal, and           *)
(* remove-special-characters turns the retained row ["#"] into [""].       *)
(***************************************************************************)
C5_Original_ReturnedRowsNonBlank ==
  (Returned /\ options.removeEmptyRows)
    => \A i \in DOMAIN OutputRows : HasNonBlankCell(OutputRows[i])

(***************************************************************************)
(* C5 amended: with remove-empty-rows enabled, whatever the other flags,   *)
(* every data row of the returned table is the per-cell transform of a     *)
(* projected data row that has a cell non-empty after whitespace trim.     *)
(***************************************************************************)
C5_ReturnedRowsComeFromNonBlankRows ==
  (Returned /\ options.removeEmptyRows)
    => \A i \in DOMAIN OutputRows :
         \E j \in DOMAIN ProjectedRows :
           /\ HasNonBlankCell(ProjectedRows[j])
           /\ OutputRows[i] = AsReturned(ProjectedRows[j])

\* A call that dropped a whitespace-only row and kept another row.
C5_Witness ==
  /\ Returned
  /\ options.removeEmptyRows
  /\ ~options.removeDuplicates
  /\ \E j \in DOMAIN ProjectedRows : ProjectedRows[j] = <<Str(<<" ">>)>>
  /\ Len(OutputRows) >= 1
  /\ Len(OutputRows) < Len(ProjectedRows)

AllZeros(c) ==
  /\ c.t = "string"
  /\ c.s # <<>>
  /\ \A i \in DOMAIN c.s : c.s[i] = "0"

(***************************************************************************)
(* C6: with remove-leading-zeros enabled, a cell made of zero characters   *)
(* only is returned unchanged ("0" stays "0", "00" stays "00").            *)
(* Violated: /^0+\d/ matches "00" (the second zero is the digit) and the   *)
(* replace removes the whole run, so "00" is returned as "".               *)
(***************************************************************************)
C6_AllZeroCellsUnchanged ==
  (Returned /\ options.removeLeadingZeros /\ RowsAligned)
    => \A i \in DOMAIN OutputRows : \A k \in DOMAIN OutputRows[i] :
         AllZeros(ProjectedRows[i][k]) => OutputRows[i][k] = ProjectedRows[i][k]

\* s is z zeros followed by a digit string that starts with a non-zero digit.
ZerosThenNumber(s, z) ==
  /\ z \in 1..(Len(s) - 1)
  /\ \A i \in 1..z : s[i] = "0"
  /\ \A i \in (z + 1)..Len(s) : IsDigit(s[i])
  /\ s[z + 1] # "0"

(***************************************************************************)
(* C7: with remove-leading-zeros enabled, a cell of one or more zeros      *)
(* followed by a digit string starting with a non-zero digit is returned   *)
(* with exactly the leading zeros removed ("007" gives "7").               *)
(***************************************************************************)
C7_LeadingZerosStripped ==
  (Returned /\ options.removeLeadingZeros /\ RowsAligned)
    => \A i \in DOMAIN OutputRows : \A k \in DOMAIN OutputRows[i] :
         LET c == ProjectedRows[i][k]
         IN \A z \in 1..Len(c.s) :
              (c.t = "string" /\ ZerosThenNumber(c.s, z))
                => OutputRows[i][k] = Str(SubSeq(c.s, z + 1, Len(c.s)))

\* "007" went in and "7" came out.
C7_Witness ==
  /\ Returned
  /\ options.removeLeadingZeros
  /\ InputRows = <<<<Str(<<"0", "0", "7">>)>>>>
  /\ OutputRows = <<<<Str(<<"7">>)>>>>

OnlyLeadingZerosTransform ==
  /\ options.removeLeadingZeros
  /\ ~options.trimWhitespace
  /\ ~options.convertToUppercase
  /\ ~options.convertToLowercase
  /\ ~options.removeSpecialCharacters

(***************************************************************************)
(* C8: with remove-leading-zeros the only enabled transform, every cell    *)
(* that contains a non-digit character is returned unchanged.              *)
(* Violated: the test /^0+\d/ looks at a prefix only, so "00a" is returned *)
(* as "a" and "07a" as "7a".                                               *)
(***************************************************************************)
C8_NonNumericCellsUnchanged ==
  (Returned /\ OnlyLeadingZerosTransform /\ RowsAligned)
    => \A i \in DOMAIN OutputRows : \A k \in DOMAIN OutputRows[i] :
         LET c == ProjectedRows[i][k]
         IN (c.t = "string" /\ \E n \in DOMAIN c.s : ~IsDigit(c.s[n]))
              => OutputRows[i][k] = c

AnyTableAbsent ==
  \/ dataFile.data = Absent
  \/ dataFile.headers = Absent
  \/ templateFile.data = Absent
  \/ templateFile.headers = Absent

ResultFields ==
  {"totalRowsCleaned", "columnsDeleted", "duplicateRowsRemoved", "cleanedData"}

(***************************************************************************)
(* C9: cleanData throws the missing-data error exactly when the row data   *)
(* or the header list of the data file or of the template file is absent;  *)
(* on every other input it throws nothing and returns a result with all    *)
(* four fields.                                                            *)
(***************************************************************************)
C9_ThrowsExactlyWhenAbsent ==
  pc # "start" =>
    /\ Thrown <=> AnyTableAbsent
    /\ Thrown => (error = Present(MissingDataMessage) /\ result = Absent)
    /\ Returned => (error = Absent /\ IsPresent(result)
                    /\ DOMAIN Output = ResultFields)

\* The call threw because only the template's row data was absent.
C9_Witness ==
  /\ Thrown
  /\ templateFile.data = Absent
  /\ templateFile.headers # Absent
  /\ dataFile.data # Absent
  /\ dataFile.headers # Absent

(***************************************************************************)
(* C10: when the data table is empty or holds a header row only, cleanData *)
(* throws nothing and every count is zero: totalRowsCleaned = 0,           *)
(* duplicateRowsRemoved = 0, and columnsDeleted = 0 when no data header    *)
(* name is dropped.                                                        *)
(* Violated: for the empty table the code returns cleanedData.length - 1,  *)
(* that is totalRowsCleaned = -1.                                          *)
(***************************************************************************)
C10_NoDataRowsGivesZeroCounts ==
  (pc # "start" /\ ~AnyTableAbsent /\ Len(InputTable) <= 1) =>
    /\ Returned
    /\ Output.totalRowsCleaned = 0
    /\ Output.duplicateRowsRemoved = 0
    /\ (Range(InputHeader) \subseteq Range(TemplateHeader))
         => Output.columnsDeleted = 0

(***************************************************************************)
(* C11: whenever cleanData returns, totalRowsCleaned is the number of data *)
(* rows of the returned table, and it is never negative.                   *)
(* Violated: for an empty data table the returned table has no row at all  *)
(* and the code reports cleanedData.length - 1 = -1.                       *)
(***************************************************************************)
C11_TotalRowsIsDataRowCount ==
  Returned => /\ Output.totalRowsCleaned = Len(OutputRows)
              /\ Output.totalRowsCleaned >= 0

(***************************************************************************)
(* C12: a call of cleanData changes neither the data file, nor the         *)
(* template file, nor the options it was given.                            *)
(***************************************************************************)
C12_InputsUnmodified ==
  [][(pc = "start" /\ pc' # "start")
       => UNCHANGED <<dataFile, templateFile, options>>]_vars

\* cleanData returned a table with fewer rows than the data table, which
\* the data file still holds.
C12_Witness ==
  /\ Returned
  /\ Output.duplicateRowsRemoved > 0
  /\ Len(OutputTable) < Len(InputTable)

\* The three options cleanData never reads.
NoOpNames == {"removeEmptyColumns", "normalizeText", "standardizeDates"}

\* The option sets that differ from o in the three unread options only.
NoOpVariants(o) ==
  {[n \in OptionNames |-> IF n \in NoOpNames THEN v[n] ELSE o[n]] :
     v \in [NoOpNames -> BOOLEAN]}

C14_UppercaseWinsOverLowercase ==
  (Returned /\ options.convertToUppercase /\ options.convertToLowercase) =>
    /\ Output = cleanDataReturn(dataFile, templateFile,
                                [options EXCEPT !.convertToLowercase = FALSE])
    /\ \A i \in DOMAIN OutputRows : \A k \in DOMAIN OutputRows[i] :
         /\ OutputRows[i][k].t = "string"
         /\ toUpperCase(OutputRows[i][k].s) = OutputRows[i][k].s

\* Both case options were enabled and a data cell with a lower-case letter
\* came back upper-cased.
C14_Witness ==
  /\ Returned
  /\ options.convertToUppercase
  /\ options.convertToLowercase
  /\ \E i \in DOMAIN InputRows : \E k \in DOMAIN InputRows[i] :
       /\ InputRows[i][k].t = "string"
       /\ \E c \in Range(InputRows[i][k].s) : c \in Range(LowerLetters)
  /\ \E i \in DOMAIN OutputRows : \E k \in DOMAIN OutputRows[i] :
       \E c \in Range(OutputRows[i][k].s) : c \in Range(UpperLetters)

\* The projection stage of cleanData applied to a table: its first row is
\* the header (as parseFile takes it), the columns kept are those of the
\* template header.
ProjectOnto(table, templateHeaders) ==
  filteredData(table,
               columnsToKeep(IF table # <<>> THEN table[1] ELSE <<>>,
                             templateHeaders))

(***************************************************************************)
(* C15: projecting a table onto a template header is idempotent: the       *)
(* projection of the projected table onto the same template is the         *)
(* projected table.                                                        *)
(* Violated: a falsy header cell (a spreadsheet 0) is projected to '', so  *)
(* the second projection no longer finds the column and drops it.          *)
(***************************************************************************)
C15_ProjectionIdempotent ==
  ~AnyTableAbsent =>
    ProjectOnto(ProjectOnto(InputTable, TemplateHeader), TemplateHeader)
      = ProjectOnto(InputTable, TemplateHeader)

(***************************************************************************)
(* C16: with all ten options off, the returned table has one data row per  *)
(* data row of the input, in the same order, each cell equal to the input  *)
(* cell of the kept column (a numeric 0 or a false included), the empty    *)
(* string only where the row has no cell, and duplicateRowsRemoved = 0.    *)
(* Violated: the projection writes row[colIndex] || '', so a cell holding  *)
(* 0 or false comes back as ''.                                            *)
(***************************************************************************)
C16_AllOptionsOffKeepsCells ==
  (Returned /\ options = DefaultOptions) =>
    /\ Len(OutputRows) = Len(InputRows)
    /\ \A i \in DOMAIN OutputRows :
         OutputRows[i] = RowOnKeptColumns(InputRows[i])
    /\ Output.duplicateRowsRemoved = 0

(***************************************************************************)
(* C17: when a cleaning call that was started on Step 2 with a parsed data *)
(* file and a parsed template file finishes while the wizard is still on   *)
(* Step 2, the wizard moves to Step 3 by itself, on the first run (no      *)
(* earlier result) included.                                               *)
(* Violated: the call runs handleStepChange(3) of the render that started  *)
(* it, where cleaningResult is still null on the first run, so the step    *)
(* stays 2.                                                                *)
(***************************************************************************)
C17_FinishedCleaningMovesToStep3 ==
  [][(/\ handleCleanDataResumed
      /\ ~missingData(Get(cleaning).dataFile, Get(cleaning).templateFile)
      /\ currentStep = 2)
       => currentStep' = 3]_vars

\* The uploaded files marked as data and as template.
DataMarked(files) == {i \in DOMAIN files : files[i].isDataFile}
TemplateMarked(files) == {i \in DOMAIN files : files[i].isTemplateFile}

\* File a ranks at least as high as file b: more rows, or as many rows and
\* at least the size (an unknown row count counts as 0, as in the code).
RanksAtLeast(a, b) ==
  \/ rowCountOrZero(a) > rowCountOrZero(b)
  \/ rowCountOrZero(a) = rowCountOrZero(b) /\ a.size >= b.size

DetectionAsDocumented(files) ==
  /\ Cardinality(DataMarked(files)) = 1
  /\ Cardinality(TemplateMarked(files)) = 1
  /\ DataMarked(files) \cap TemplateMarked(files) = {}
  /\ \A d \in DataMarked(files) : \A i \in DOMAIN files :
       RanksAtLeast(files[d], files[i])
  /\ \A d \in DataMarked(files) : \A t \in TemplateMarked(files) :
       RanksAtLeast(files[d], files[t])

(***************************************************************************)
(* C18: after an upload or a removal that leaves two or more files,        *)
(* exactly one file is marked as data and exactly one other file as        *)
(* template; the data file has at least as many rows as every other file   *)
(* (and at least the size when the row counts are equal), and the template *)
(* has fewer rows than the data file (or is the smaller one when the row   *)
(* counts are equal).                                                      *)
(* Violated: a file whose parse failed has no rowCount; the comparator     *)
(* takes it for different from 0 and then subtracts 0 from 0, so it ties   *)
(* with a file of 0 rows without looking at the sizes, and the file        *)
(* uploaded first becomes the data file although it is the smaller one.    *)
(***************************************************************************)
C18_DetectionMarksLargestAndSmaller ==
  [][(/\ \/ \E k \in DOMAIN parsing : processFiles(k)
         \/ \E index \in 1..MaxFiles : removeFile(index)
      /\ Len(uploadedFiles') >= 2)
       => DetectionAsDocumented(uploadedFiles')]_vars

(***************************************************************************)
(* C19: whenever the wizard is on Step 3, a cleaning result exists.        *)
(***************************************************************************)
C19_Step3HasResult ==
  currentStep = 3 => cleaningResult # Absent

\* The wizard is on Step 3 with a result and without any file: the files
\* were cleared on Step 1 after a cleaning run.
C19_Witness ==
  /\ currentStep = 3
  /\ cleaningResult # Absent
  /\ uploadedFiles = <<>>

(***************************************************************************)
(* C20: whenever the wizard is on Step 2, at least two files are uploaded. *)
(* Violated: after a cleaning run Step 3 stays accessible when the files   *)
(* are cleared on Step 1, and from Step 3 a click on the header of Step 2  *)
(* is accepted as a step back (newStep <= currentStep).                    *)
(***************************************************************************)
C20_Step2HasTwoFiles ==
  currentStep = 2 => Len(uploadedFiles) >= 2

\* The four per-cell transforms as section 4.1 step 5 names them, each applied
\* only if its flag is on.
TrimmedIfEnabled(s) == IF options.trimWhitespace THEN trim(s) ELSE s

CaseConvertedIfEnabled(s) ==
  IF options.convertToUppercase THEN toUpperCase(s)
  ELSE IF options.convertToLowercase THEN toLowerCase(s)
  ELSE s

SpecialsRemovedIfEnabled(s) ==
  IF options.removeSpecialCharacters THEN removeSpecial(s) ELSE s

ZerosRemovedIfEnabled(s) ==
  IF options.removeLeadingZeros /\ leadingZerosTest(s) THEN stripLeadingZeros(s)
  ELSE s

TransformsInOrder(cell) ==
  Str(ZerosRemovedIfEnabled(SpecialsRemovedIfEnabled(CaseConvertedIfEnabled(
        TrimmedIfEnabled(toString(cell))))))

SomeTransformEnabled ==
  \/ options.trimWhitespace
  \/ options.convertToUppercase
  \/ options.convertToLowercase
  \/ options.removeSpecialCharacters
  \/ options.removeLeadingZeros

(***************************************************************************)
(* C23: when per-cell transforms are enabled, each returned data cell is   *)
(* the string-coerced projected cell put through trim-whitespace, then     *)
(* case conversion, then remove-special-characters, then                   *)
(* remove-leading-zeros, each only if enabled ("#007" becomes "7" with the *)
(* last two on; " 007" is unchanged with only remove-leading-zeros on).    *)
(***************************************************************************)
C23_TransformsAppliedInOrder ==
  (Returned /\ SomeTransformEnabled /\ RowsAligned)
    => \A i \in DOMAIN OutputRows : \A k \in DOMAIN OutputRows[i] :
         OutputRows[i][k] = TransformsInOrder(ProjectedRows[i][k])

\* A call with remove-special-characters and remove-leading-zeros on whose
\* cell shows its leading zero only once the special character is gone.
C23_Witness ==
  /\ Returned
  /\ options.removeSpecialCharacters
  /\ options.removeLeadingZeros
  /\ InputRows = <<<<Str(<<"#", "0", "7">>)>>>>
  /\ OutputRows = <<<<Str(<<"7">>)>>>>

NoEdgeWhitespace(s) ==
  s = <<>> \/ (~IsWhitespace(s[1]) /\ ~IsWhitespace(s[Len(s)]))

(***************************************************************************)
(* C28 as stated: whenever trim-whitespace is enabled, whatever the other  *)
(* flags are, no data cell of the returned table begins or ends with a     *)
(* whitespace character.                                                   *)
(* Violated: the trim runs first, so with remove-special-characters on the *)
(* cell "# a" is returned as " a".                                         *)
(***************************************************************************)
C28_Original_NoEdgeWhitespaceAnyFlags ==
  (Returned /\ options.trimWhitespace)
    => \A i \in DOMAIN OutputRows : \A k \in DOMAIN OutputRows[i] :
         NoEdgeWhitespace(toString(OutputRows[i][k]))

(***************************************************************************)
(* C28 amended: whenever trim-whitespace is enabled, whatever the other    *)
(* flags are, every data cell of the returned table is what                *)
(* remove-special-characters and remove-leading-zeros (each if enabled)    *)
(* make of a string that neither begins nor ends with a whitespace         *)
(* character, namely the trimmed and case-converted projected cell; with   *)
(* those two flags off the returned cell itself has no whitespace at       *)
(* either end.                                                             *)
(***************************************************************************)
C28_TrimmedBeforeLaterTransforms ==
  (Returned /\ options.trimWhitespace)
    => \A i \in DOMAIN OutputRows : \A k \in DOMAIN OutputRows[i] :
         \E j \in DOMAIN ProjectedRows :
           LET x == CaseConvertedIfEnabled(trim(toString(ProjectedRows[j][k])))
           IN /\ NoEdgeWhitespace(x)
              /\ OutputRows[i][k] =
                   Str(ZerosRemovedIfEnabled(SpecialsRemovedIfEnabled(x)))
              /\ (~options.removeSpecialCharacters /\ ~options.removeLeadingZeros)
                   => NoEdgeWhitespace(OutputRows[i][k].s)

\* A call with trim-whitespace on whose cell had whitespace at both ends.
C28_Witness ==
  /\ Returned
  /\ options.trimWhitespace
  /\ InputRows = <<<<Str(<<" ", "a", " ">>)>>>>
  /\ OutputRows = <<<<Str(<<"a">>)>>>>

\* The rows that are not a repeat of an earlier row, in their order.
FirstOccurrences(rows) ==
  LET RECURSIVE from(_)
      from(i) ==
        IF i > Len(rows) THEN <<>>
        ELSE (IF \A j \in 1..(i - 1) : rows[j] # rows[i] THEN <<rows[i]>> ELSE <<>>)
               \o from(i + 1)
  IN from(1)

\* The projected data rows that pass the duplicate removal, and of those the
\* ones the empty-row removal lets through, under the current options.
Survivors ==
  IF options.removeDuplicates THEN FirstOccurrences(ProjectedRows) ELSE ProjectedRows

NonEmptySurvivors ==
  IF options.removeEmptyRows THEN SelectSeq(Survivors, HasNonBlankCell) ELSE Survivors

ReturnedForm(row) ==
  IF SomeTransformEnabled THEN [k \in DOMAIN row |-> TransformsInOrder(row[k])]
  ELSE row

(***************************************************************************)
(* C24: deduplication compares the rows as projected, before the empty-row *)
(* removal and before any text transform: a data row is dropped as a       *)
(* duplicate exactly when an earlier data row has the same projected cells *)
(* (case and whitespace count, even with trim or case conversion on), the  *)
(* first occurrence is the one kept, and the surviving rows keep their     *)
(* relative order.                                                         *)
(***************************************************************************)
C24_DedupOnProjectedRows ==
  (Returned /\ options.removeDuplicates /\ ProjectedRows # <<>>)
    => /\ Output.duplicateRowsRemoved
            = Len(ProjectedRows) - Len(FirstOccurrences(ProjectedRows))
       /\ OutputRows =
            [i \in DOMAIN NonEmptySurvivors |-> ReturnedForm(NonEmptySurvivors[i])]

\* A call with remove-duplicates and trim on: " a", "a", " a" keeps the first
\* two rows, which the trim then makes equal.
C24_Witness ==
  /\ Returned
  /\ options.removeDuplicates
  /\ options.trimWhitespace
  /\ InputRows = <<<<Str(<<" ", "a">>)>>, <<Str(<<"a">>)>>, <<Str(<<" ", "a">>)>>>>
  /\ OutputRows = <<<<Str(<<"a">>)>>, <<Str(<<"a">>)>>>>
  /\ Output.duplicateRowsRemoved = 1

(***************************************************************************)
(* C25: the header row takes part in projection only: with any combination *)
(* of flags the returned header row is the projected header unchanged (not *)
(* trimmed, case-converted, stripped of characters or zeros), it is never  *)
(* removed as an empty row, and a data row equal to the header row is not  *)
(* dropped as a duplicate of it.                                           *)
(***************************************************************************)
C25_HeaderRowOnlyProjected ==
  (Returned /\ InputTable # <<>>)
    => /\ OutputTable # <<>>
       /\ Head(OutputTable) = Head(Projected)
       /\ (\E j \in DOMAIN ProjectedRows :
              ProjectedRows[j] = Head(Projected) /\ HasNonBlankCell(ProjectedRows[j]))
            => \E i \in DOMAIN OutputRows : OutputRows[i] = ReturnedForm(Head(Projected))
       /\ (~options.removeEmptyRows
              /\ \E j \in DOMAIN ProjectedRows : ProjectedRows[j] = Head(Projected))
            => \E i \in DOMAIN OutputRows : OutputRows[i] = ReturnedForm(Head(Projected))

\* A call with the row stages and three transforms on, whose first data row
\* repeats a header cell that each of the transforms would change.
C25_Witness ==
  /\ Returned
  /\ options.removeDuplicates
  /\ options.removeEmptyRows
  /\ options.trimWhitespace
  /\ options.convertToLowercase
  /\ options.removeSpecialCharacters
  /\ Head(Projected) = <<Str(<<" ", "A", "#">>)>>
  /\ ProjectedRows # <<>>
  /\ Head(ProjectedRows) = Head(Projected)
  /\ Head(OutputTable) = Head(Projected)
  /\ Head(OutputRows) = <<Str(<<"a">>)>>

\* The rows the empty-row removal dropped.
RowsDroppedAsEmpty == Len(Survivors) - Len(NonEmptySurvivors)

(***************************************************************************)
(* C27: for every accepted input with a header row, totalRowsCleaned plus  *)
(* duplicateRowsRemoved plus the number of rows dropped as empty equals    *)
(* the number of data rows of the data table; with remove-empty-rows off,  *)
(* totalRowsCleaned plus duplicateRowsRemoved equals that number.          *)
(***************************************************************************)
C27_RowCountsAddUp ==
  (Returned /\ InputTable # <<>>)
    => /\ Output.totalRowsCleaned + Output.duplicateRowsRemoved + RowsDroppedAsEmpty
            = Len(InputRows)
       /\ ~options.removeEmptyRows
            => Output.totalRowsCleaned + Output.duplicateRowsRemoved = Len(InputRows)

\* A call that kept one row, dropped one as a duplicate and one as empty.
C27_Witness ==
  /\ Returned
  /\ Len(InputRows) = 3
  /\ Output.totalRowsCleaned = 1
  /\ Output.duplicateRowsRemoved = 1
  /\ RowsDroppedAsEmpty = 1

C26_CleanWithoutMarksOnlySetsError ==
  [][(/\ handleCleanData
      /\ (DataMarked(uploadedFiles) = {} \/ TemplateMarked(uploadedFiles) = {}))
       => /\ errorText' = Present(AssignLabelsMessage)
          /\ cleaning' = Absent
          /\ UNCHANGED <<currentStep, cleaningResult, uploadedFiles, isProcessing>>
          /\ UNCHANGED callVars]_vars

\* Clean the Data was clicked on Step 2 with two files of which none is marked
\* data.
C26_Witness ==
  /\ currentStep = 2
  /\ errorText = Present(AssignLabelsMessage)
  /\ Len(uploadedFiles) = 2
  /\ DataMarked(uploadedFiles) = {}
  /\ ~isProcessing
  /\ cleaning = Absent
  /\ cleaningResult = Absent

(***************************************************************************)
(* C29: in every state reachable by uploads, removals, automatic           *)
(* detections and manual Data/Template toggles, at most one uploaded file  *)
(* is marked data, at most one is marked template, and no file carries     *)
(* both marks.                                                             *)
(***************************************************************************)
C29_MarksAreExclusive ==
  /\ Cardinality(DataMarked(uploadedFiles)) <= 1
  /\ Cardinality(TemplateMarked(uploadedFiles)) <= 1
  /\ DataMarked(uploadedFiles) \cap TemplateMarked(uploadedFiles) = {}

\* The file detection marked as data was toggled to template: the only mark
\* left among the two files is its template mark.
C29_Witness ==
  /\ currentStep = 2
  /\ Len(uploadedFiles) = 2
  /\ DataMarked(uploadedFiles) = {}
  /\ Cardinality(TemplateMarked(uploadedFiles)) = 1

(***************************************************************************)
(* C21: an upload at Step 1 that leaves two or more files starts the       *)
(* countdown at 5; every tick takes one off; unless the user cancels it,   *)
(* removes files below two or changes step, the countdown reaches 0 and    *)
(* the wizard then moves to Step 2; after a cancel, or with fewer than     *)
(* two files, no automatic advance happens.                                *)
(* Violated when uploads overlap (C30): a processFiles call that resumes   *)
(* with a stale list of fewer than two files overwrites a list of two      *)
(* without stopping the countdown, which then runs out on Step 1 without   *)
(* moving to Step 2.                                                       *)
(***************************************************************************)
C21_CountdownEndsInStep2 ==
  [][/\ (/\ \E k \in DOMAIN parsing : processFiles(k)
         /\ currentStep = 1
         /\ Len(uploadedFiles') >= 2)
          => autoAdvanceCountdown' = Present(CountdownStart)
     /\ (countdownTick /\ Get(autoAdvanceCountdown) > 1)
          => /\ autoAdvanceCountdown' = Present(Get(autoAdvanceCountdown) - 1)
             /\ currentStep' = currentStep
     /\ (countdownTick /\ Get(autoAdvanceCountdown) = 1 /\ currentStep = 1)
          => currentStep' = 2
     /\ cancelAutoAdvance => autoAdvanceCountdown' = Absent
     /\ (countdownTick /\ currentStep = 1 /\ Len(uploadedFiles) < 2)
          => currentStep' = 1]_vars

\* The names of the files a user can drop, and how often a name occurs in a
\* list of files.
FileNames == {f.name : f \in DroppedFiles}

CountOf(files, name) == Cardinality({i \in DOMAIN files : files[i].name = name})

(***************************************************************************)
(* C30: no upload is lost under interleaving: when an upload finishes, the *)
(* uploaded list holds the files it held just before (the files of an      *)
(* upload that finished meanwhile included, the files removed meanwhile    *)
(* excluded) plus the files of this upload.                                *)
(* Violated: processFiles builds the new list from the uploadedFiles of    *)
(* the render that started it, so it drops the files a concurrent upload   *)
(* added and brings back the files removed while it was parsing.           *)
(***************************************************************************)
C30_NoUploadLost ==
  [][\A k \in DOMAIN parsing :
       processFiles(k)
         => \A name \in FileNames :
              CountOf(uploadedFiles', name)
                = CountOf(uploadedFiles, name) + CountOf(parsing[k].files, name)]_vars


====
